---- MODULE Spec2Model ----
(***************************************************************************)
(* Model of tagger/api.py: the FastAPI surface of the wd14 tagger.         *)
(*                                                                         *)
(* Each HTTP request is handled on a worker thread (a "call").  A call     *)
(* runs the route's dependency (Api.auth, when api_auth is configured),    *)
(* then one of the three endpoints.  endpoint_interrogate serialises on    *)
(* queue_lock and drives the process-wide QData singleton.                 *)
(***************************************************************************)
EXTENDS Integers, Sequences, FiniteSets, TLC

(* Number of worker threads that handle requests concurrently. *)
MaxCalls == 2

Calls == 1..MaxCalls

(***************************************************************************)
(* Values.                                                                 *)
(***************************************************************************)

(* An empty dict. *)
EmptyMap == [l \in {} |-> 0]

(* Python's None for the optional creds parameter. *)
None == [tag |-> "None"]

(* The credentials of a call that presented none yet, or whose request has *)
(* been handed to the endpoint.                                            *)
NotHeld == [tag |-> "NotHeld"]

(* What Depends(HTTPBasic()) evaluates to when called as plain Python:     *)
(* a fastapi.params.Depends object, which has no username attribute.       *)
DependsHTTPBasic == [tag |-> "Depends", dependency |-> "HTTPBasic"]

HTTPBasicCredentials(u, p) ==
    [tag |-> "HTTPBasicCredentials", username |-> u, password |-> p]

(* The credentials a request can present. *)
PresentedCreds ==
    { None,
      HTTPBasicCredentials("alice", "secret"),
      HTTPBasicCredentials("alice", "hunter2"),
      HTTPBasicCredentials("carol", "secret") }

(* shared.cmd_opts.api_auth, already split at "," and ":"; <<>> is unset. *)
ApiAuthOptions ==
    { <<>>, << <<"alice", "secret">>, <<"bob", "hunter2">> >> }

(* req.image: None or a base64 string. *)
NoImage == "<None>"
Images == {NoImage, "b64"}

(* utils.interrogators as populated at startup, in dict order. *)
RegisteredModels == <<"m1", "m2", "m3">>

(* Model names the requests carry; "mX" is not registered, and "m3" is     *)
(* registered but not asked for, so its handle never loads a model.        *)
ModelNames == {"m1", "m2", "mX"}

Policies == {"pass", "threshold"}

NoResponse == [status |-> 0]

HTTPException(code, text) == [status |-> code, detail |-> text]

Unauthorized ==
    [status |-> 401, detail |-> "Incorrect username or password",
     headers |-> [WWWAuthenticate |-> "Basic"]]

(* An exception that is not an HTTPException reaches the caller as a 500. *)
ServerError(what) == [status |-> 500, error |-> what]

Range(s) == {s[i] : i \in DOMAIN s}

VARIABLES
    api_auth,         \* shared.cmd_opts.api_auth
    credentials,      \* Api.credentials
    interrogators,    \* utils.interrogators: the keys, in dict order
    loaded,           \* per model handle: does it hold a loaded engine
    policy,           \* the configured filter policy used by QData
    queue_lock,       \* Api.queue_lock: TRUE when locked
    QData,            \* the four containers of tagger.uiset.QData
    pc,               \* per call: position in its handler
    creds,            \* per call: the credentials presented
    req,              \* per call: the request
    interrogator,     \* per call: local of endpoint_interrogate
    data,             \* per call: local of endpoint_interrogate
    output,           \* per call: local of endpoint_interrogate
    unloaded_models,  \* per call: local of endpoint_unload_interrogators
    cursor,           \* per call: position of the for loop over values()
    resp,             \* per call: what the call returned or raised
    engineCalls,      \* per call: invocations of interrogate() it made
    unloadLog         \* per call: <<model, result>> of each unload() it made

vars == << api_auth, credentials, interrogators, loaded, policy, queue_lock,
           QData, pc, creds, req, interrogator, data, output,
           unloaded_models, cursor, resp, engineCalls, unloadLog >>

config == << api_auth, credentials, interrogators, policy >>

(***************************************************************************)
(* Api.__init__ and the access control of the routes.                      *)
(***************************************************************************)

(* Api.__init__: self.credentials[user] = password for each pair in turn. *)
RECURSIVE BuildCredentials(_)
BuildCredentials(opts) ==
    IF opts = <<>> THEN EmptyMap
    ELSE LET n == Len(opts)
             before == BuildCredentials(SubSeq(opts, 1, n - 1))
         IN  (opts[n][1] :> opts[n][2]) @@ before

(* secrets.compare_digest on two str values. *)
compare_digest(a, b) == a = b

(* Api.auth: "ok" when it returns True, otherwise the exception raised. *)
auth(cr, table) ==
    LET c == IF cr = None THEN DependsHTTPBasic ELSE cr
    IN  IF "username" \notin DOMAIN c THEN "AttributeError"
        ELSE IF c.username \in DOMAIN table
                /\ compare_digest(c.password, table[c.username]) THEN "ok"
        ELSE "401"

(* The route added without its dependency. *)
RouteWithoutDependency(opts, cr, table) == "ok"

(* Api.add_api_route: Depends(self.auth) is attached only when api_auth    *)
(* is set; the dependency runs before the endpoint.                        *)
RouteDependency(opts, cr, table) ==
    IF opts # <<>> THEN auth(cr, table) ELSE "ok"

(***************************************************************************)
(* The collaborators of endpoint_interrogate.                              *)
(***************************************************************************)

(* The (ratings, tags) pair a model's engine returns; scores in percent. *)
EngineOutput(m) ==
    CASE m = "m1" -> << ("general" :> 90), ("cat" :> 80) @@ ("dog" :> 30) >>
      [] m = "m2" -> << ("sensitive" :> 60), ("cat" :> 40) @@ ("bird" :> 70) >>
      [] OTHER    -> << ("general" :> 20), ("dog" :> 55) >>

(* The configured selection predicate over (label, score). *)
Accepts(p, label, score) == p = "pass" \/ score >= 50

Selected(p, m) == {l \in DOMAIN m : Accepts(p, l, m[l])}

(* Adds the selected entries of m to the accumulated scores in acc. *)
Accumulate(acc, p, m) ==
    [l \in DOMAIN acc \cup Selected(p, m) |->
        (IF l \in DOMAIN acc THEN acc[l] ELSE 0)
      + (IF l \in Selected(p, m) THEN m[l] ELSE 0)]

(* QData.apply_filters, first half: the ratings of data. *)
ApplyRatings(q, p, d) ==
    [q EXCEPT !.ratings = Accumulate(q.ratings, p, d[4]),
              !.in_db = q.in_db \cup Selected(p, d[4])]

(* QData.apply_filters, second half: the tags of data. *)
ApplyTags(q, p, d) ==
    [q EXCEPT !.tags = Accumulate(q.tags, p, d[5]),
              !.in_db = q.in_db \cup Selected(p, d[5]),
              !.for_tags_file = q.for_tags_file \cup Selected(p, d[5])]

apply_filters(q, p, d) == ApplyTags(ApplyRatings(q, p, d), p, d)

(* QData.finalize(count): the merged ratings, the merged tags and the      *)
(* entries selected for auxiliary output, averaged over count images.      *)
finalize(q, count) ==
    << [l \in DOMAIN q.ratings |-> q.ratings[l] \div count],
       [l \in DOMAIN q.tags |-> q.tags[l] \div count],
       [l \in q.for_tags_file \cap DOMAIN q.tags |-> q.tags[l] \div count] >>

(* QData as the process starts: four empty containers. *)
EmptyQData ==
    [tags |-> EmptyMap, ratings |-> EmptyMap, in_db |-> {},
     for_tags_file |-> {}]

(* The clear() calls with QData.for_tags_file.clear() left out. *)
ClearAllButForTagsFile(q) ==
    [tags |-> EmptyMap, ratings |-> EmptyMap, in_db |-> {},
     for_tags_file |-> q.for_tags_file]

(* The clear() calls with QData.tags.clear() left out. *)
ClearAllButTags(q) ==
    [tags |-> q.tags, ratings |-> EmptyMap, in_db |-> {},
     for_tags_file |-> {}]

(* The four clear() calls at the head of the with block. *)
ClearAll(q) ==
    [tags |-> EmptyMap, ratings |-> EmptyMap, in_db |-> {},
     for_tags_file |-> {}]

(* ('', '', '') + interrogator.interrogate(image) *)
MakeData(result) == <<"", "", "">> \o result

(* The merge with **output[0] left out. *)
CaptionWithoutFirst(out) == out[3] @@ out[2]

(* The merge with the earlier source winning on a shared key. *)
CaptionFirstWins(out) == out[1] @@ out[2] @@ out[3]

(* {**output[0], **output[1], **output[2]}: later sources win. *)
Caption(out) == out[3] @@ out[2] @@ out[1]

TaggerInterrogateResponse(out) == [status |-> 200, caption |-> Caption(out)]

InterrogatorsResponse(reg) == [status |-> 200, models |-> reg]

(* f"Successfully unload {unloaded_models} model(s)" *)
UnloadMessage(n) == "Successfully unload " \o ToString(n) \o " model(s)"

(* Entering the block without waiting for the lock. *)
CanAcquireAlways(lock) == TRUE

(* with self.queue_lock: entering needs the lock to be free. *)
CanAcquire(lock) == ~lock

(* The block left normally without releasing the lock. *)
NormalExitKeepsLock(lock) == lock

(* with self.queue_lock: leaving the block normally. *)
WithExit(lock) == FALSE

(* acquire() and release() around the block instead of with: an exception  *)
(* skips the release.                                                      *)
ExitKeepsLock(lock) == lock

(* with self.queue_lock: leaving the block by an exception raised in it. *)
WithExitRaise(lock) == FALSE

(***************************************************************************)
(* Initial state: the process after Api.__init__.                          *)
(***************************************************************************)
Init ==
    /\ api_auth \in ApiAuthOptions
    /\ credentials = BuildCredentials(api_auth)
    /\ interrogators = RegisteredModels
    /\ loaded = [m \in Range(RegisteredModels) |-> FALSE]
    /\ policy \in Policies
    /\ queue_lock = FALSE
    /\ QData = EmptyQData
    /\ pc = [c \in Calls |-> "idle"]
    /\ creds = [c \in Calls |-> NotHeld]
    /\ req = [c \in Calls |-> [kind |-> "none"]]
    /\ interrogator = [c \in Calls |-> ""]
    /\ data = [c \in Calls |-> <<>>]
    /\ output = [c \in Calls |-> <<>>]
    /\ unloaded_models = [c \in Calls |-> 0]
    /\ cursor = [c \in Calls |-> 0]
    /\ resp = [c \in Calls |-> NoResponse]
    /\ engineCalls = [c \in Calls |-> 0]
    /\ unloadLog = [c \in Calls |-> <<>>]

(***************************************************************************)
(* The requests a client can send.                                         *)
(***************************************************************************)
InterrogateRequests ==
    {[kind |-> "interrogate", model |-> m, image |-> i] :
        m \in ModelNames, i \in Images}

(* The checks without the one on the model name. *)
ValidateImageOnly(r, reg) ==
    IF r.image = NoImage THEN "Image not found" ELSE "ok"

(* The checks in the other order. *)
ValidateModelFirst(r, reg) ==
    IF r.model \notin Range(reg) THEN "Model not found"
    ELSE IF r.image = NoImage THEN "Image not found"
    ELSE "ok"

(* The two checks at the head of endpoint_interrogate: the detail of the   *)
(* 404 raised, or "ok".                                                    *)
Validate(r, reg) ==
    IF r.image = NoImage THEN "Image not found"
    ELSE IF r.model \notin Range(reg) THEN "Model not found"
    ELSE "ok"

(* The count incremented whatever unload() returned. *)
CountEvery(n, result) == n + 1

(* if i.unload(): unloaded_models = unloaded_models + 1 *)
CountUnloaded(n, result) == IF result THEN n + 1 ELSE n

(* The call ends: it returned r or raised r. *)
Return(c, r) ==
    /\ pc' = [pc EXCEPT ![c] = "done"]
    /\ resp' = [resp EXCEPT ![c] = r]

(* A request arrives and the route's dependency raises: the endpoint is    *)
(* not called, the request body is not looked at.                          *)
Rejected(c) ==
    /\ pc[c] = "idle"
    /\ \E cr \in PresentedCreds :
          LET verdict == RouteDependency(api_auth, cr, credentials)
          IN  /\ verdict # "ok"
              /\ creds' = [creds EXCEPT ![c] = cr]
              /\ Return(c, IF verdict = "401" THEN Unauthorized
                           ELSE ServerError(verdict))
    /\ UNCHANGED << config, loaded, queue_lock, QData, req, interrogator,
                    data, output, unloaded_models, cursor, engineCalls,
                    unloadLog >>

(* A request arrives and passes the route's dependency, or the route has   *)
(* none: the endpoint is called next.                                      *)
Admit(c) ==
    /\ pc[c] = "idle"
    /\ \E cr \in PresentedCreds :
          /\ RouteDependency(api_auth, cr, credentials) = "ok"
          /\ creds' = [creds EXCEPT ![c] = cr]
    /\ pc' = [pc EXCEPT ![c] = "admitted"]
    /\ UNCHANGED << config, loaded, queue_lock, QData, req, interrogator,
                    data, output, unloaded_models, cursor, resp, engineCalls,
                    unloadLog >>

(* endpoint_interrogate, the two checks at its head.  The endpoint gets    *)
(* the request body only, not the credentials.                             *)
InterrogateEnter(c) ==
    /\ pc[c] = "admitted"
    /\ creds' = [creds EXCEPT ![c] = NotHeld]
    /\ \E r \in InterrogateRequests :
          /\ req' = [req EXCEPT ![c] = r]
          /\ LET check == Validate(r, interrogators)
             IN  IF check # "ok"
                 THEN Return(c, HTTPException(404, check))
                 ELSE /\ pc' = [pc EXCEPT ![c] = "fetch"]
                      /\ UNCHANGED resp
    /\ UNCHANGED << config, loaded, queue_lock, QData, interrogator, data,
                    output, unloaded_models, cursor, engineCalls, unloadLog >>

(* The handle is left unfetched before the with statement. *)
FetchDeferred(c) ==
    /\ pc[c] = "fetch"
    /\ pc' = [pc EXCEPT ![c] = "wait"]
    /\ UNCHANGED << config, loaded, queue_lock, QData, creds, req,
                    interrogator, resp, data, output, unloaded_models,
                    cursor, engineCalls, unloadLog >>

(* image = decode_base64_to_image(req.image);                              *)
(* interrogator = utils.interrogators[req.model], a KeyError if the name   *)
(* is no key.  Both run before the with statement.                         *)
Fetch(c) ==
    /\ pc[c] = "fetch"
    /\ IF req[c].model \notin Range(interrogators)
       THEN /\ Return(c, ServerError("KeyError"))
            /\ UNCHANGED interrogator
       ELSE /\ interrogator' = [interrogator EXCEPT ![c] = req[c].model]
            /\ pc' = [pc EXCEPT ![c] = "wait"]
            /\ UNCHANGED resp
    /\ UNCHANGED << config, loaded, queue_lock, QData, creds, req, data,
                    output, unloaded_models, cursor, engineCalls, unloadLog >>

(* with self.queue_lock: the call blocks until the lock is free. *)
Acquire(c) ==
    /\ pc[c] = "wait"
    /\ CanAcquire(queue_lock)
    /\ queue_lock' = TRUE
    /\ pc' = [pc EXCEPT ![c] = "reset"]
    /\ UNCHANGED << config, loaded, QData, creds, req, interrogator, data,
                    output, unloaded_models, cursor, resp, engineCalls,
                    unloadLog >>

(* QData.tags.clear() ... QData.for_tags_file.clear() *)
Reset(c) ==
    /\ pc[c] = "reset"
    /\ QData' = ClearAll(QData)
    /\ pc' = [pc EXCEPT ![c] = "infer"]
    /\ UNCHANGED << config, loaded, queue_lock, creds, req, interrogator,
                    data, output, unloaded_models, cursor, resp, engineCalls,
                    unloadLog >>

(* interrogator.interrogate(image) is called. *)
InvokeEngine(c) ==
    /\ pc[c] = "infer"
    /\ engineCalls' = [engineCalls EXCEPT ![c] = @ + 1]
    /\ pc' = [pc EXCEPT ![c] = "engine"]
    /\ UNCHANGED << config, loaded, queue_lock, QData, creds, req,
                    interrogator, data, output, unloaded_models, cursor,
                    resp, unloadLog >>

(* The engine returns (ratings, tags); the handle now holds a loaded model. *)
EngineReturn(c) ==
    /\ pc[c] = "engine"
    /\ data' = [data EXCEPT ![c] = MakeData(EngineOutput(interrogator[c]))]
    /\ loaded' = [loaded EXCEPT ![interrogator[c]] = TRUE]
    /\ pc' = [pc EXCEPT ![c] = "filter"]
    /\ UNCHANGED << config, queue_lock, QData, creds, req, interrogator,
                    output, unloaded_models, cursor, resp, engineCalls,
                    unloadLog >>

(* The engine raises and the call invokes it again. *)
EngineRaiseRetries(c) ==
    /\ pc[c] = "engine"
    /\ pc' = [pc EXCEPT ![c] = "infer"]
    /\ UNCHANGED << config, loaded, queue_lock, QData, creds, req,
                    interrogator, data, output, unloaded_models, cursor,
                    resp, engineCalls, unloadLog >>

(* The engine raises; the with block is left by the exception. *)
EngineRaise(c) ==
    /\ pc[c] = "engine"
    /\ queue_lock' = WithExitRaise(queue_lock)
    /\ Return(c, ServerError("engine"))
    /\ UNCHANGED << config, loaded, QData, creds, req, interrogator, data,
                    output, unloaded_models, cursor, engineCalls, unloadLog >>

(* QData.apply_filters(data) *)
ApplyFilters(c) ==
    /\ pc[c] = "filter"
    /\ QData' = apply_filters(QData, policy, data[c])
    /\ pc' = [pc EXCEPT ![c] = "final"]
    /\ UNCHANGED << config, loaded, queue_lock, creds, req, interrogator,
                    data, output, unloaded_models, cursor, resp, engineCalls,
                    unloadLog >>

(* QData.apply_filters(data) raises after it has merged the ratings. *)
ApplyFiltersRaise(c) ==
    /\ pc[c] = "filter"
    /\ QData' = ApplyRatings(QData, policy, data[c])
    /\ queue_lock' = WithExitRaise(queue_lock)
    /\ Return(c, ServerError("apply_filters"))
    /\ UNCHANGED << config, loaded, creds, req, interrogator, data, output,
                    unloaded_models, cursor, engineCalls, unloadLog >>

(* The containers cleared again once finalize has returned. *)
FinalizeThenClear(c) ==
    /\ pc[c] = "final"
    /\ output' = [output EXCEPT ![c] = finalize(QData, 1)]
    /\ QData' = EmptyQData
    /\ queue_lock' = FALSE
    /\ pc' = [pc EXCEPT ![c] = "respond"]
    /\ UNCHANGED << config, loaded, creds, req, interrogator, data,
                    unloaded_models, cursor, resp, engineCalls, unloadLog >>

(* output = QData.finalize(1), the last statement of the with block: the   *)
(* block is left and the lock released.                                    *)
Finalize(c) ==
    /\ pc[c] = "final"
    /\ output' = [output EXCEPT ![c] = finalize(QData, 1)]
    /\ queue_lock' = WithExit(queue_lock)
    /\ pc' = [pc EXCEPT ![c] = "respond"]
    /\ UNCHANGED << config, loaded, QData, creds, req, interrogator, data,
                    unloaded_models, cursor, resp, engineCalls, unloadLog >>

(* QData.finalize(1) raises. *)
FinalizeRaise(c) ==
    /\ pc[c] = "final"
    /\ queue_lock' = WithExitRaise(queue_lock)
    /\ Return(c, ServerError("finalize"))
    /\ UNCHANGED << config, loaded, QData, creds, req, interrogator, data,
                    output, unloaded_models, cursor, engineCalls, unloadLog >>

(* return models.TaggerInterrogateResponse(caption={...}) *)
Respond(c) ==
    /\ pc[c] = "respond"
    /\ Return(c, TaggerInterrogateResponse(output[c]))
    /\ UNCHANGED << config, loaded, queue_lock, QData, creds, req,
                    interrogator, data, output, unloaded_models, cursor,
                    engineCalls, unloadLog >>

(* endpoint_interrogators run only while no interrogation holds the lock. *)
InterrogatorsUnderGate(c) ==
    /\ pc[c] = "admitted"
    /\ ~queue_lock
    /\ creds' = [creds EXCEPT ![c] = NotHeld]
    /\ req' = [req EXCEPT ![c] = [kind |-> "interrogators"]]
    /\ Return(c, InterrogatorsResponse(interrogators))
    /\ UNCHANGED << config, loaded, queue_lock, QData, interrogator, data,
                    output, unloaded_models, cursor, engineCalls, unloadLog >>

(* endpoint_interrogators *)
Interrogators(c) ==
    /\ pc[c] = "admitted"
    /\ creds' = [creds EXCEPT ![c] = NotHeld]
    /\ req' = [req EXCEPT ![c] = [kind |-> "interrogators"]]
    /\ Return(c, InterrogatorsResponse(interrogators))
    /\ UNCHANGED << config, loaded, queue_lock, QData, interrogator, data,
                    output, unloaded_models, cursor, engineCalls, unloadLog >>

(* endpoint_unload_interrogators: unloaded_models = 0, the loop starts. *)
UnloadEnter(c) ==
    /\ pc[c] = "admitted"
    /\ creds' = [creds EXCEPT ![c] = NotHeld]
    /\ req' = [req EXCEPT ![c] = [kind |-> "unload-interrogators"]]
    /\ unloaded_models' = [unloaded_models EXCEPT ![c] = 0]
    /\ cursor' = [cursor EXCEPT ![c] = 1]
    /\ pc' = [pc EXCEPT ![c] = "unload"]
    /\ UNCHANGED << config, loaded, queue_lock, QData, interrogator, data,
                    output, resp, engineCalls, unloadLog >>

(* The iteration run only while no interrogation holds the lock. *)
UnloadStepUnderGate(c) ==
    /\ pc[c] = "unload"
    /\ cursor[c] <= Len(interrogators)
    /\ ~queue_lock
    /\ LET i == interrogators[cursor[c]]
           result == loaded[i]
       IN  /\ loaded' = [loaded EXCEPT ![i] = FALSE]
           /\ unloadLog' = [unloadLog EXCEPT ![c] = Append(@, <<i, result>>)]
           /\ unloaded_models' =
                 [unloaded_models EXCEPT ![c] = CountUnloaded(@, result)]
    /\ cursor' = [cursor EXCEPT ![c] = @ + 1]
    /\ UNCHANGED << config, queue_lock, QData, pc, creds, req, interrogator,
                    data, output, resp, engineCalls >>

(* The iteration also drops the unloaded handle from the registry. *)
UnloadStepPops(c) ==
    /\ pc[c] = "unload"
    /\ cursor[c] <= Len(interrogators)
    /\ LET i == interrogators[cursor[c]]
           result == loaded[i]
       IN  /\ loaded' = [loaded EXCEPT ![i] = FALSE]
           /\ unloadLog' = [unloadLog EXCEPT ![c] = Append(@, <<i, result>>)]
           /\ unloaded_models' =
                 [unloaded_models EXCEPT ![c] = CountUnloaded(@, result)]
           /\ interrogators' = SelectSeq(interrogators, LAMBDA m : m # i)
    /\ UNCHANGED << api_auth, credentials, policy, cursor, queue_lock, QData,
                    pc, creds, req, interrogator, data, output, resp,
                    engineCalls >>

(* One iteration of the loop: i.unload() on the next handle, which frees   *)
(* the model if it is loaded and says whether it did.                      *)
UnloadStep(c) ==
    /\ pc[c] = "unload"
    /\ cursor[c] <= Len(interrogators)
    /\ LET i == interrogators[cursor[c]]
           result == loaded[i]
       IN  /\ loaded' = [loaded EXCEPT ![i] = FALSE]
           /\ unloadLog' = [unloadLog EXCEPT ![c] = Append(@, <<i, result>>)]
           /\ unloaded_models' =
                 [unloaded_models EXCEPT ![c] = CountUnloaded(@, result)]
    /\ cursor' = [cursor EXCEPT ![c] = @ + 1]
    /\ UNCHANGED << config, queue_lock, QData, pc, creds, req, interrogator,
                    data, output, resp, engineCalls >>

(* The loop is exhausted: return the message. *)
UnloadReturn(c) ==
    /\ pc[c] = "unload"
    /\ cursor[c] > Len(interrogators)
    /\ Return(c, [status |-> 200, body |-> UnloadMessage(unloaded_models[c])])
    /\ UNCHANGED << config, loaded, queue_lock, QData, creds, req,
                    interrogator, data, output, unloaded_models, cursor,
                    engineCalls, unloadLog >>

(* The worker thread is free again for the next request. *)
Recycle(c) ==
    /\ pc[c] = "done"
    /\ pc' = [pc EXCEPT ![c] = "idle"]
    /\ creds' = [creds EXCEPT ![c] = NotHeld]
    /\ req' = [req EXCEPT ![c] = [kind |-> "none"]]
    /\ interrogator' = [interrogator EXCEPT ![c] = ""]
    /\ data' = [data EXCEPT ![c] = <<>>]
    /\ output' = [output EXCEPT ![c] = <<>>]
    /\ unloaded_models' = [unloaded_models EXCEPT ![c] = 0]
    /\ cursor' = [cursor EXCEPT ![c] = 0]
    /\ resp' = [resp EXCEPT ![c] = NoResponse]
    /\ engineCalls' = [engineCalls EXCEPT ![c] = 0]
    /\ unloadLog' = [unloadLog EXCEPT ![c] = <<>>]
    /\ UNCHANGED << config, loaded, queue_lock, QData >>

Next ==
    \E c \in Calls :
        \/ Rejected(c)
        \/ Admit(c)
        \/ InterrogateEnter(c)
        \/ Fetch(c)
        \/ Acquire(c)
        \/ Reset(c)
        \/ InvokeEngine(c)
        \/ EngineReturn(c)
        \/ EngineRaise(c)
        \/ ApplyFilters(c)
        \/ ApplyFiltersRaise(c)
        \/ Finalize(c)
        \/ FinalizeRaise(c)
        \/ Respond(c)
        \/ Interrogators(c)
        \/ UnloadEnter(c)
        \/ UnloadStep(c)
        \/ UnloadReturn(c)
        \/ Recycle(c)

Spec == Init /\ [][Next]_vars

(* Scheduling: a thread that can take its next step takes it; an engine,   *)
(* apply_filters or finalize call returns or raises; a thread that waits   *)
(* for the lock gets it if the lock is free again and again.  No request   *)
(* has to arrive, and a thread need not take a next request.               *)
Fairness ==
    \A c \in Calls :
        /\ WF_vars(InterrogateEnter(c) \/ Interrogators(c) \/ UnloadEnter(c))
        /\ WF_vars(Fetch(c))
        /\ SF_vars(Acquire(c))
        /\ WF_vars(Reset(c))
        /\ WF_vars(InvokeEngine(c))
        /\ WF_vars(EngineReturn(c) \/ EngineRaise(c))
        /\ WF_vars(ApplyFilters(c) \/ ApplyFiltersRaise(c))
        /\ WF_vars(Finalize(c) \/ FinalizeRaise(c))
        /\ WF_vars(Respond(c))
        /\ WF_vars(UnloadStep(c))
        /\ WF_vars(UnloadReturn(c))

LiveSpec == Spec /\ Fairness

(***************************************************************************)
(* Properties.                                                             *)
(***************************************************************************)

(* The call is inside the with block: it acquired the lock and has not     *)
(* yet left the block.                                                     *)
Holding(c) == pc[c] \in {"reset", "infer", "engine", "filter", "final"}

IsInterrogate(c) == req[c].kind = "interrogate"

Succeeded(c) == pc[c] = "done" /\ resp[c].status = 200

AllEmpty(q) ==
    /\ q.tags = EmptyMap
    /\ q.ratings = EmptyMap
    /\ q.in_db = {}
    /\ q.for_tags_file = {}

(* C1: at most one call at a time is between acquiring the lock and        *)
(* releasing it, i.e. in one of the steps reset, engine invocation,        *)
(* apply_filters, finalize, whatever models and images the calls are for.  *)
C1_MutualExclusion == Cardinality({c \in Calls : Holding(c)}) <= 1

(* One call is inside the block while a call for another model waits. *)
C1_Witness ==
    \E c, d \in Calls :
        /\ Holding(c)
        /\ pc[d] = "wait"
        /\ interrogator[c] # interrogator[d]

(* C2: a call that acquired the lock has released it by the time it        *)
(* returns, with a response or with an error of the engine, apply_filters  *)
(* or finalize: the lock is held only while some call is inside the block, *)
(* so a later call can acquire it after a failure.                         *)
C2_GateReleased == queue_lock => \E c \in Calls : Holding(c)

(* A call ended with an engine error and another call is inside the block. *)
C2_Witness ==
    \E c, d \in Calls :
        /\ pc[c] = "done"
        /\ resp[c] = ServerError("engine")
        /\ Holding(d)

(* C3: right after the reset step and before the engine is invoked, the    *)
(* four containers of QData are empty, whatever earlier calls left there.  *)
C3_ResetEmpties == \A c \in Calls : pc[c] = "infer" => AllEmpty(QData)

(* A call is past its reset while an earlier call has returned a caption   *)
(* that it had accumulated in QData.                                       *)
C3_Witness ==
    \E c, d \in Calls :
        /\ pc[c] = "infer"
        /\ IsInterrogate(d) /\ Succeeded(d)
        /\ resp[d].caption # EmptyMap

(* The caption of a call for model m under policy p on a QData that        *)
(* nothing was ever written to.                                            *)
FreshCaption(m, p) ==
    LET d == <<"", "", "">> \o EngineOutput(m)
    IN  Caption(finalize(apply_filters(EmptyQData, p, d), 1))

(* C4: the caption a call returns is a function of the engine output and   *)
(* the filter policy alone: it is the caption the call would return on a   *)
(* process that never handled a request, whatever calls came before.       *)
C4_NoLeak ==
    \A c \in Calls :
        IsInterrogate(c) /\ Succeeded(c)
            => resp[c].caption = FreshCaption(req[c].model, policy)

(* Two calls for different models have returned captions: one of them ran  *)
(* on what the other left in QData.                                        *)
C4_Witness ==
    \E c, d \in Calls :
        /\ IsInterrogate(c) /\ Succeeded(c)
        /\ IsInterrogate(d) /\ Succeeded(d)
        /\ req[c].model # req[d].model
        /\ ~AllEmpty(QData)

UnknownModel(r) ==
    r.kind = "interrogate" /\ r.image # NoImage
        /\ r.model \notin Range(interrogators)

(* C5: a call with an image and a model name that is not registered ends   *)
(* with 404 'Model not found'; it never enters the with block or invokes   *)
(* an engine, and the step that handles it leaves the lock, QData and the  *)
(* handles as they were.                                                   *)
C5_ModelNotFound ==
    [][\A c \in Calls :
          UnknownModel(req'[c]) =>
              /\ pc'[c] = "done"
              /\ resp'[c] = HTTPException(404, "Model not found")
              /\ engineCalls'[c] = 0
              /\ interrogator'[c] = ""
              /\ UNCHANGED << queue_lock, QData, loaded >> \/ req'[c] = req[c]
      ]_vars

(* Such a call has ended while another call holds the lock and QData is    *)
(* populated.                                                              *)
C5_Witness ==
    \E c, d \in Calls :
        /\ UnknownModel(req[c])
        /\ resp[c] = HTTPException(404, "Model not found")
        /\ pc[d] = "final"
        /\ ~AllEmpty(QData)

NoImageRequest(r) == r.kind = "interrogate" /\ r.image = NoImage

(* C6: a call without an image ends with 404 'Image not found', for every  *)
(* model name, registered or not; it never enters the with block, and the  *)
(* step that handles it leaves the lock, QData and the handles as they     *)
(* were.                                                                   *)
C6_ImageNotFound ==
    [][\A c \in Calls :
          NoImageRequest(req'[c]) =>
              /\ pc'[c] = "done"
              /\ resp'[c] = HTTPException(404, "Image not found")
              /\ engineCalls'[c] = 0
              /\ interrogator'[c] = ""
              /\ UNCHANGED << queue_lock, QData, loaded >> \/ req'[c] = req[c]
      ]_vars

(* A call without an image and with an unregistered model name has ended   *)
(* with the image error, and so has one with a registered model name.      *)
C6_Witness ==
    \E c, d \in Calls :
        /\ NoImageRequest(req[c]) /\ req[c].model \notin Range(interrogators)
        /\ resp[c] = HTTPException(404, "Image not found")
        /\ NoImageRequest(req[d]) /\ req[d].model \in Range(interrogators)
        /\ resp[d] = HTTPException(404, "Image not found")

(* The username is a key of the Credential Table and the password is the   *)
(* one stored for it.                                                      *)
CredsValid(cr) ==
    /\ cr \in PresentedCreds
    /\ "username" \in DOMAIN cr
    /\ cr.username \in DOMAIN credentials
    /\ credentials[cr.username] = cr.password

AuthConfigured == api_auth # <<>>

(* The call presented cr and the request was refused. *)
Refused(c) == creds[c] \in PresentedCreds /\ pc[c] = "done"

(* C7: with authentication configured a request is admitted if and only    *)
(* if its credentials are valid, and every other request, missing          *)
(* credentials included, gets 401 with WWW-Authenticate: Basic and detail  *)
(* 'Incorrect username or password'; with none configured every request    *)
(* is admitted.                                                            *)
C7_AuthOutcome ==
    \A c \in Calls :
        creds[c] \in PresentedCreds =>
            IF AuthConfigured
            THEN /\ pc[c] = "admitted" <=> CredsValid(creds[c])
                 /\ ~CredsValid(creds[c]) =>
                        pc[c] = "done" /\ resp[c] = Unauthorized
            ELSE pc[c] = "admitted"

(* C8: with authentication configured, a request whose credentials the     *)
(* dependency does not accept never reaches an endpoint: it ends at once   *)
(* with an error, having invoked no interrogate() and no unload(), and the *)
(* step that refuses it leaves the lock, QData, the handles, the registry  *)
(* and the Credential Table as they were.                                  *)
C8_RefusedDoesNothing ==
    [][\A c \in Calls :
          AuthConfigured /\ creds'[c] \in PresentedCreds
                         /\ ~CredsValid(creds'[c]) =>
              /\ pc'[c] = "done"
              /\ resp'[c].status \in {401, 500}
              /\ req'[c] = [kind |-> "none"]
              /\ engineCalls'[c] = 0
              /\ unloadLog'[c] = <<>>
              /\ interrogator'[c] = ""
              /\ \/ creds'[c] = creds[c]
                 \/ UNCHANGED << queue_lock, QData, loaded, interrogators,
                                 credentials >>
      ]_vars

(* A request was refused with 401 while another call holds the lock, QData *)
(* is populated and a handle holds a loaded model.                         *)
C8_Witness ==
    \E c, d \in Calls :
        /\ AuthConfigured
        /\ Refused(c)
        /\ resp[c] = Unauthorized
        /\ Holding(d)
        /\ ~AllEmpty(QData)
        /\ \E m \in DOMAIN loaded : loaded[m]

(* The handles a call invoked unload() on, in the order of the calls. *)
UnloadedHandles(c) == [i \in DOMAIN unloadLog[c] |-> unloadLog[c][i][1]]

(* The number of its unload() calls that returned true. *)
Freed(c) == Cardinality({i \in DOMAIN unloadLog[c] : unloadLog[c][i][2]})

UnloadDone(c) == pc[c] = "done" /\ req[c].kind = "unload-interrogators"

(* C9: a call of endpoint_unload_interrogators has invoked unload() once   *)
(* on every registered handle when it returns, and returns 'Successfully   *)
(* unload N model(s)' with N the number of those calls that returned true: *)
(* with 3 handles of which 2 freed a model, N = 2.                         *)
C9_UnloadCount ==
    \A c \in Calls :
        UnloadDone(c) =>
            /\ UnloadedHandles(c) = interrogators
            /\ resp[c].status = 200
            /\ resp[c].body = UnloadMessage(Freed(c))
            /\ Len(interrogators) = 3 /\ Freed(c) = 2
                   => resp[c].body = "Successfully unload 2 model(s)"

(* A call has returned after two of the three handles freed a model and    *)
(* the third declined.                                                     *)
C9_Witness ==
    \E c \in Calls :
        /\ UnloadDone(c)
        /\ Len(interrogators) = 3
        /\ Freed(c) = 2
        /\ \E i \in DOMAIN unloadLog[c] : ~unloadLog[c][i][2]
        /\ resp[c].body = "Successfully unload 2 model(s)"

(* C10: under the pass-through policy, a successful call returns a caption *)
(* that is the union of the ratings and the tags the engine returned: the  *)
(* same keys with the same scores; for ratings {general: 90} and tags      *)
(* {cat: 80, dog: 30} it is {general: 90, cat: 80, dog: 30}.               *)
C10_PassThroughCaption ==
    \A c \in Calls :
        policy = "pass" /\ IsInterrogate(c) /\ Succeeded(c) =>
            LET R == EngineOutput(req[c].model)[1]
                T == EngineOutput(req[c].model)[2]
            IN  /\ DOMAIN resp[c].caption = DOMAIN R \cup DOMAIN T
                /\ \A l \in DOMAIN R : resp[c].caption[l] = R[l]
                /\ \A l \in DOMAIN T : resp[c].caption[l] = T[l]
                /\ req[c].model = "m1" =>
                       resp[c].caption = [general |-> 90, cat |-> 80, dog |-> 30]

(* The call for the model of the example has returned its caption after a  *)
(* call for another model returned. *)
C10_Witness ==
    \E c, d \in Calls :
        /\ policy = "pass"
        /\ IsInterrogate(c) /\ Succeeded(c) /\ req[c].model = "m1"
        /\ resp[c].caption = [general |-> 90, cat |-> 80, dog |-> 30]
        /\ IsInterrogate(d) /\ Succeeded(d) /\ req[d].model = "m2"

InterrogatorsDone(c) == pc[c] = "done" /\ req[c].kind = "interrogators"

(* C11: two calls of endpoint_interrogators return the same ordered list   *)
(* of model names, the keys of the registry, whatever interrogate and      *)
(* unload-interrogators calls ran between or beside them.                  *)
C11_SameNames ==
    \A c, d \in Calls :
        InterrogatorsDone(c) /\ InterrogatorsDone(d) =>
            /\ resp[c].status = 200
            /\ resp[c].models = resp[d].models
            /\ resp[c].models = interrogators

(* Two calls have returned the names after an interrogation populated      *)
(* QData and loaded a model.                                               *)
C11_Witness ==
    \E c, d \in Calls :
        /\ c # d
        /\ InterrogatorsDone(c) /\ InterrogatorsDone(d)
        /\ ~AllEmpty(QData)
        /\ \E m \in DOMAIN loaded : loaded[m]

(* C12 as stated: the handle is looked up while the call holds the lock and *)
(* after the reset, so a call that still waits for the lock or has not     *)
(* reset yet has no handle.                                                *)
C12_LookupUnderGate ==
    \A c \in Calls : pc[c] \in {"wait", "reset"} => interrogator[c] = ""

(* C12: in a call of endpoint_interrogate the steps occur in the order     *)
(* look up the handle, acquire the lock, reset the containers, invoke the  *)
(* engine: the handle is looked up before the lock is acquired, and the    *)
(* engine is invoked once, under the lock, after the reset.                *)
C12_LookupBeforeGate ==
    \A c \in Calls :
        /\ pc[c] = "fetch" => interrogator[c] = ""
        /\ pc[c] \in {"wait", "reset", "infer", "engine", "filter", "final",
                      "respond"}
               => interrogator[c] = req[c].model
        /\ pc[c] \in {"fetch", "wait", "reset", "infer"} => engineCalls[c] = 0
        /\ pc[c] \in {"reset", "infer", "engine"} => queue_lock
        /\ pc[c] \in {"infer", "engine"} => AllEmpty(QData)
        /\ pc[c] \in {"engine", "filter", "final", "respond"}
               => engineCalls[c] = 1
        /\ IsInterrogate(c) /\ Succeeded(c)
               => interrogator[c] = req[c].model /\ engineCalls[c] = 1

(* A call has its handle and waits for the lock that another call holds. *)
C12_Witness ==
    \E c, d \in Calls :
        /\ pc[c] = "wait"
        /\ interrogator[c] = req[c].model
        /\ interrogator[c] \in Range(interrogators)
        /\ Holding(d)
        /\ queue_lock

(* C13 as stated: the response is built while the call still holds the     *)
(* lock, so no other call is inside the with block at that time.           *)
C13_RespondsUnderGate ==
    \A c \in Calls :
        pc[c] = "respond" =>
            queue_lock /\ \A d \in Calls \ {c} : ~Holding(d)

(* The step that follows each position of endpoint_interrogate from the    *)
(* with statement on.                                                      *)
NextPosition(p) ==
    CASE p = "wait"    -> "reset"
      [] p = "reset"   -> "infer"
      [] p = "infer"   -> "engine"
      [] p = "engine"  -> "filter"
      [] p = "filter"  -> "final"
      [] p = "final"   -> "respond"
      [] p = "respond" -> "done"

(* C13: a call of endpoint_interrogate goes through IDLE, GATE_ACQUIRED,   *)
(* STATE_RESET, INFERRING, AGGREGATING, GATE_RELEASED, RESPONDING in that  *)
(* order, or leaves by an error of the engine, apply_filters or finalize   *)
(* with the lock released: the lock is released when finalize has          *)
(* returned, and the caption is built after that, from the record that     *)
(* finalize returned while the call held the lock.                         *)
C13_StateMachine ==
    [][\A c \in Calls :
          pc[c] \in {"wait", "reset", "infer", "engine", "filter", "final",
                     "respond"} /\ pc'[c] # pc[c] =>
              /\ \/ pc'[c] = NextPosition(pc[c])
                 \/ /\ pc[c] \in {"engine", "filter", "final"}
                    /\ pc'[c] = "done"
                    /\ resp'[c].status = 500
                    /\ ~queue_lock'
              /\ pc'[c] = "reset" => ~queue_lock /\ queue_lock'
              /\ pc'[c] = "respond" =>
                    /\ queue_lock /\ ~queue_lock'
                    /\ output'[c] = finalize(QData, 1)
                    /\ QData' = QData
              /\ pc[c] = "respond" =>
                    /\ resp'[c] = [status |-> 200,
                                   caption |-> Caption(output[c])]
                    /\ output'[c] = output[c]
                    /\ UNCHANGED << queue_lock, QData >>
      ]_vars

(* A call is about to build its caption while another call, which has      *)
(* acquired the lock since, has reset QData.                               *)
C13_Witness ==
    \E c, d \in Calls :
        /\ pc[c] = "respond"
        /\ output[c][2] # EmptyMap
        /\ pc[d] = "infer"
        /\ queue_lock
        /\ AllEmpty(QData)

(* The call is in endpoint_interrogate and has not returned. *)
Pending(c) ==
    pc[c] \in {"fetch", "wait", "reset", "infer", "engine", "filter",
               "final", "respond"}

(* Calls wait for the lock and no call is inside the with block: the lock  *)
(* is free.                                                                *)
NoLockout ==
    (\E c \in Calls : pc[c] = "wait") /\ (\A c \in Calls : ~Holding(c))
        => ~queue_lock /\ \E c \in Calls : ENABLED Acquire(c)

(* C14: under fair scheduling, with engine calls that return or raise and  *)
(* a lock granted fairly, every call of endpoint_interrogate returns, with *)
(* a response or an error, also when other calls fail; and calls never     *)
(* wait for a lock that no call holds.                                     *)
C14_EveryCallReturns ==
    /\ \A c \in Calls : Pending(c) ~> (pc[c] = "done")
    /\ []NoLockout

(* A call waits for the lock, which is free, after another call ended      *)
(* with an engine error.                                                   *)
C14_Witness ==
    \E c, d \in Calls :
        /\ pc[c] = "wait"
        /\ pc[d] = "done" /\ resp[d] = ServerError("engine")
        /\ ~queue_lock

(* C15: endpoint_unload_interrogators neither takes nor waits for the lock: *)
(* each of its steps can be taken whoever holds the lock and leaves the    *)
(* lock as it is, so unload() can be invoked on a handle while a call of   *)
(* endpoint_interrogate runs the engine of that handle under the lock.     *)
C15_UnloadIgnoresGate ==
    \A c \in Calls :
        /\ pc[c] = "admitted" =>
              /\ ENABLED UnloadEnter(c)
              /\ ~ENABLED (UnloadEnter(c) /\ queue_lock' # queue_lock)
        /\ pc[c] = "unload" /\ cursor[c] <= Len(interrogators) =>
              /\ ENABLED UnloadStep(c)
              /\ ~ENABLED (UnloadStep(c) /\ queue_lock' # queue_lock)
        /\ pc[c] = "unload" /\ cursor[c] > Len(interrogators) =>
              /\ ENABLED UnloadReturn(c)
              /\ ~ENABLED (UnloadReturn(c) /\ queue_lock' # queue_lock)
        /\ req[c].kind = "unload-interrogators" => ~Holding(c)

(* The loop of one call is about to invoke unload() on the handle whose    *)
(* engine another call is running under the lock, and can do so.           *)
C15_Witness ==
    \E c, d \in Calls :
        /\ pc[d] = "engine"
        /\ queue_lock
        /\ pc[c] = "unload"
        /\ cursor[c] <= Len(interrogators)
        /\ interrogators[cursor[c]] = interrogator[d]
        /\ ENABLED UnloadStep(c)

EngineFailed(c) == resp[c] = ServerError("engine")

(* C16: a call invokes the engine at most once; when the engine raises,    *)
(* the call ends there with the error and no caption: apply_filters and    *)
(* finalize are not run (QData stays as the reset left it, data and output *)
(* are never assigned) and the engine is not invoked again.                *)
C16_EngineFailurePropagates ==
    \A c \in Calls :
        /\ engineCalls[c] <= 1
        /\ pc[c] = "engine" =>
              ~ENABLED (/\ EngineRaise(c)
                        /\ ~(/\ pc'[c] = "done"
                             /\ EngineFailed(c)'
                             /\ QData' = QData
                             /\ engineCalls'[c] = 1))
        /\ EngineFailed(c) =>
              /\ pc[c] = "done"
              /\ IsInterrogate(c)
              /\ resp[c].status = 500
              /\ "caption" \notin DOMAIN resp[c]
              /\ engineCalls[c] = 1
              /\ data[c] = <<>>
              /\ output[c] = <<>>

(* A call ended with the engine's error while QData is still as its reset  *)
(* left it.                                                                *)
C16_Witness ==
    \E c \in Calls :
        /\ EngineFailed(c)
        /\ engineCalls[c] = 1
        /\ AllEmpty(QData)
        /\ ~queue_lock

(* What a call for the data d leaves in QData under the policy. *)
ResultsOf(d) == apply_filters(EmptyQData, policy, d)

(* C17: QData is cleared before use only: the reset step of a call empties *)
(* it, apply_filters fills it, and no other step of any endpoint changes   *)
(* it; in particular the step that releases the lock leaves in it the      *)
(* results of the call, which stay there through interrogators, unload and *)
(* refused requests until a call resets.                                   *)
C17_ClearedOnlyBeforeUse ==
    [][/\ QData' # QData =>
             \E c \in Calls :
                \/ pc[c] = "reset" /\ pc'[c] = "infer" /\ AllEmpty(QData')
                \/ pc[c] = "filter" /\ pc'[c] \in {"final", "done"}
       /\ \A c \in Calls :
             pc[c] = "final" /\ pc'[c] = "respond" =>
                 QData' = QData /\ QData = ResultsOf(data[c])
      ]_vars

(* A call has returned its caption and its results are still in QData      *)
(* after an unload call freed the model it had loaded.                     *)
C17_Witness ==
    \E c, d \in Calls :
        /\ IsInterrogate(c) /\ Succeeded(c)
        /\ QData = ResultsOf(data[c])
        /\ ~AllEmpty(QData)
        /\ UnloadDone(d)
        /\ \E i \in DOMAIN unloadLog[d] :
              unloadLog[d][i] = <<req[c].model, TRUE>>

(* C18: endpoint_interrogators takes no lock and changes nothing: it can    *)
(* run whoever holds the lock, returns the names of the registry in order, *)
(* and leaves the registry, the lock, QData and the handles as they were.  *)
C18_InterrogatorsReadOnly ==
    \A c \in Calls :
        pc[c] = "admitted" =>
            /\ ENABLED Interrogators(c)
            /\ ~ENABLED (/\ Interrogators(c)
                         /\ ~(/\ resp'[c] = [status |-> 200,
                                             models |-> interrogators]
                              /\ pc'[c] = "done"
                              /\ UNCHANGED << interrogators, queue_lock,
                                              QData, loaded >>))

(* The endpoint is about to run, and can, while another call is inside the *)
(* with block with a model loaded.                                         *)
C18_Witness ==
    \E c, d \in Calls :
        /\ pc[c] = "admitted"
        /\ pc[d] = "filter"
        /\ queue_lock
        /\ loaded[interrogator[d]]
        /\ ENABLED Interrogators(c)

(***************************************************************************)
(* The merge of lines 96-101 over arbitrary records: every call stands     *)
(* after the with block holding three label -> score records, and responds.*)
(***************************************************************************)
MergeLabels == {"cat", "dog"}

MergeScores == {10, 20, 30}

MergeRecords ==
    UNION {[ls -> MergeScores] : ls \in SUBSET MergeLabels}

MergeInit ==
    /\ api_auth = <<>>
    /\ credentials = BuildCredentials(api_auth)
    /\ interrogators = RegisteredModels
    /\ loaded = [m \in Range(RegisteredModels) |-> m = "m1"]
    /\ policy = "pass"
    /\ queue_lock = FALSE
    /\ QData = EmptyQData
    /\ pc = [c \in Calls |-> "respond"]
    /\ creds = [c \in Calls |-> NotHeld]
    /\ req = [c \in Calls |->
                [kind |-> "interrogate", model |-> "m1", image |-> "b64"]]
    /\ interrogator = [c \in Calls |-> "m1"]
    /\ data = [c \in Calls |-> <<>>]
    /\ \E r0, r1, r2 \in MergeRecords :
          output = [c \in Calls |-> <<r0, r1, r2>>]
    /\ unloaded_models = [c \in Calls |-> 0]
    /\ cursor = [c \in Calls |-> 0]
    /\ resp = [c \in Calls |-> NoResponse]
    /\ engineCalls = [c \in Calls |-> 1]
    /\ unloadLog = [c \in Calls |-> <<>>]

MergeNext == \E c \in Calls : Respond(c)

MergeSpec == MergeInit /\ [][MergeNext]_vars

(* The index of the last of the three records that has label l. *)
LastWith(out, l) ==
    CHOOSE i \in 1..3 :
        /\ l \in DOMAIN out[i]
        /\ \A j \in 1..3 : l \in DOMAIN out[j] => j <= i

(* C19: the caption of a response is one mapping whose labels are those of *)
(* the three records of finalize(1), each label once, and each label has   *)
(* the score of the last record, in index order, that has it.              *)
C19_LaterRecordWins ==
    \A c \in Calls :
        (pc[c] = "done" /\ resp[c].status = 200 /\ req[c].kind = "interrogate")
            => LET out == output[c]
                   cap == resp[c].caption
               IN  /\ DOMAIN cap =
                          DOMAIN out[1] \cup DOMAIN out[2] \cup DOMAIN out[3]
                   /\ \A l \in DOMAIN cap : cap[l] = out[LastWith(out, l)][l]

(* A response whose three records all have one label, with three different *)
(* scores, and a second label that only the first record has.              *)
C19_Witness ==
    \E c \in Calls :
        /\ pc[c] = "done" /\ resp[c].status = 200
        /\ req[c].kind = "interrogate"
        /\ "cat" \in DOMAIN output[c][1] \cap DOMAIN output[c][2]
                       \cap DOMAIN output[c][3]
        /\ output[c][1]["cat"] # output[c][2]["cat"]
        /\ output[c][2]["cat"] # output[c][3]["cat"]
        /\ output[c][1]["cat"] # output[c][3]["cat"]
        /\ DOMAIN output[c][1] = {"cat", "dog"}
        /\ DOMAIN output[c][2] = {"cat"}
        /\ resp[c].caption["cat"] = output[c][3]["cat"]

(* C20: no interleaving of the three endpoints adds or removes a key of    *)
(* the registry, the unload endpoint changes only the load state of the    *)
(* handles, so a name that passed the membership check is still a key when *)
(* the call fetches the handle and the fetch never raises KeyError.        *)
C20_RegistryStable ==
    /\ interrogators = RegisteredModels
    /\ DOMAIN loaded = Range(interrogators)
    /\ \A c \in Calls :
          /\ resp[c] # ServerError("KeyError")
          /\ pc[c] = "fetch" =>
                /\ req[c].model \in Range(interrogators)
                /\ ENABLED Fetch(c)
                /\ ~ENABLED (Fetch(c) /\ pc'[c] # "wait")
          /\ pc[c] = "unload" =>
                ~ENABLED (UnloadStep(c) /\ interrogators' # interrogators)

(* A call has passed the membership check and not yet fetched the handle   *)
(* while an unload call has already gone over the handle of its model.     *)
C20_Witness ==
    \E c, d \in Calls :
        /\ pc[c] = "fetch"
        /\ pc[d] = "unload"
        /\ \E i \in DOMAIN unloadLog[d] : unloadLog[d][i][1] = req[c].model
        /\ ENABLED Fetch(c)

====
